---- MODULE Spec2Model ----
(***************************************************************************)
(* A model of the multilayer-perceptron notebook                           *)
(* src/Question3/Documentation_multiLayerPerceptron.ipynb: its pure        *)
(* functions (initialize_mlp, forward_pass, one_hot, loss, accuracy,       *)
(* update) as operators and run_mnist_training_loop as a state machine.    *)
(*                                                                         *)
(* Numbers.  TLA+ has no reals.  Weights, biases, pixels and logits are    *)
(* integers (weights and biases in units of the initializer's scale 1e-2). *)
(* The library functions whose results are real-valued and opaque to the   *)
(* notebook (logsumexp, the loss sum, the Adam step) are kept symbolic or  *)
(* are drawn from a finite set of outcomes; each is marked where defined.  *)
(* Arrays are sequences, indexed from 1; a Python index i is position i+1. *)
(***************************************************************************)
EXTENDS Integers, Sequences, FiniteSets, TLC

(***************************************************************************)
(* Bounds of the model.                                                    *)
(***************************************************************************)
\* run_mnist_training_loop is called with num_epochs in 0..MaxEpochs.
MaxEpochs == 2
\* The training split holds 1..MaxTrain examples.
MaxTrain == 3
\* batch_size_train = 64 and batch_size_test = 1000, scaled down with the splits.
batch_size_train == 2
batch_size_test == 2
\* The split handed to accuracy in AccSpec holds 1..MaxSplit examples.
MaxSplit == 3
\* one_hot is applied to label vectors of length 0..MaxLabels.
MaxLabels == 3
\* one_hot is applied with k in 1..MaxK classes.
MaxK == 4
\* initialize_mlp is called with 1..MaxSizes widths, each in 1..MaxWidth.
MaxSizes == 4
MaxWidth == 2
\* Largest number of rows of a batch passed to batch_forward.
MaxBatch == 2
\* Points per axis of the grid (num=100 in np.linspace).
GridNum == 3

\* The PRNG keys the model draws from (random.PRNGKey values).
Keys == 0..4
\* Pixel values of the (normalized) images.
Pixels == {-1, 1}

VARIABLES
    \* ---- a call of one of the pure functions -------------------------
    call,           \* [fn, args, done]: the function called and its inputs
    ret,            \* its return value once call.done
    \* ---- run_mnist_training_loop ------------------------------------
    pc,             \* position of the run
    num_epochs,     \* argument num_epochs
    net_type,       \* argument net_type
    globals,        \* names bound in the kernel's global namespace
    train_loader,   \* global train_loader: [dataset, batch_size]
    test_loader,    \* global test_loader: [dataset, batch_size]
    heap,           \* the objects created so far: params lists and optimizer states
    params,         \* local params: a reference into heap
    opt_state,      \* local opt_state: a reference into heap
    epoch,          \* loop variable of `for epoch in range(num_epochs)`
    batches,        \* the batches enumerate(train_loader) yields in this epoch
    batch_idx,      \* how many of them the inner loop has consumed
    start_time,     \* local start_time
    train_loss,     \* local list train_loss
    log_acc_train,  \* local list log_acc_train
    log_acc_test,   \* local list log_acc_test
    stdout,         \* the status lines printed so far
    failure,        \* the exception that ended the run, "none" while it runs
    \* ---- history of the run (written, never read, by the actions) ----
    opt_calls,      \* one entry per opt_update call: its step index and result
    fed,            \* the batches passed to update in this epoch
    evals,          \* one entry per pair of accuracy evaluations
    \* ---- the density visualizer cell (Question1) ----------------------
    cell_line,      \* position of the cell's execution
    namespace,      \* names bound in the kernel's global namespace
    distr,          \* the object the name distr refers to, when it is bound
    cov,            \* global cov: the covariance matrix
    idx,            \* loop variable idx of `for idx, val in enumerate(cov_val)`
    pdf,            \* global pdf: the grid being filled
    filled,         \* how many grid points the loops over i, j have filled
    fig,            \* the subplots added to the figure
    pdf_list,       \* global pdf_list
    raised          \* the exception that ended the cell, "none" while it runs

callVars == <<call, ret>>
inputVars == <<num_epochs, net_type, globals, train_loader, test_loader>>
loopVars == <<pc, heap, params, opt_state, epoch, batches, batch_idx, start_time,
              train_loss, log_acc_train, log_acc_test, stdout, failure,
              opt_calls, fed, evals>>
scriptVars == <<cell_line, namespace, distr, cov, idx, pdf, filled, fig, pdf_list, raised>>
vars == <<callVars, inputVars, loopVars, scriptVars>>

\* The state of the density visualizer cell while it is not being run.
ScriptIdle ==
    /\ cell_line = "idle"
    /\ namespace = {}
    /\ distr = <<>>
    /\ cov = <<>>
    /\ idx = 0
    /\ pdf = <<>>
    /\ filled = 0
    /\ fig = <<>>
    /\ pdf_list = <<>>
    /\ raised = "none"

(***************************************************************************)
(* Array helpers (jax.numpy).                                              *)
(***************************************************************************)
Min2(a, b) == IF a <= b THEN a ELSE b

Max2(a, b) == IF a >= b THEN a ELSE b

RECURSIVE SumSeq(_)
SumSeq(s) == IF Len(s) = 0 THEN 0 ELSE Head(s) + SumSeq(Tail(s))

RECURSIVE Gcd(_, _)
Gcd(a, b) == IF b = 0 THEN a ELSE Gcd(b, a % b)

\* np.dot(w, x) of a matrix (a sequence of rows) and a vector.
dot(w, x) == [i \in 1..Len(w) |-> SumSeq([j \in 1..Len(x) |-> w[i][j] * x[j]])]

\* a + b of two vectors of one length.
add(a, b) == [i \in 1..Len(a) |-> a[i] + b[i]]

\* np.arange(k)
arange(k) == [j \in 1..k |-> j - 1]

\* np.argmax of a vector: the Python index of the first maximum.
argmax(v) ==
    (CHOOSE i \in 1..Len(v) :
        /\ \A j \in 1..Len(v) : v[j] <= v[i]
        /\ \A j \in 1..(i - 1) : v[j] < v[i]) - 1

\* The rectified-linear function the notebook calls as ReLU.  No cell of the
\* notebook defines it; it is taken from the specification ("rectified-linear
\* nonlinearity"): the elementwise maximum of 0 and x.
ReLU(x) == [i \in 1..Len(x) |-> Max2(0, x[i])]

\* jax.scipy.special.logsumexp(a): a real number, kept symbolic.
logsumexp(a) == [logsumexp_of |-> a]

\* a - s for a vector a and a symbolic scalar s: kept symbolic.
subtract(a, s) == [vector |-> a, minus |-> s]

\* np.argmax of a vector a - s: subtracting one scalar from every entry
\* keeps their order.
argmax_shifted(p) == argmax(p.vector)

\* a / n of an integer count and a positive integer: the quotient as a
\* fraction in lowest terms (1.0 is [num |-> 1, den |-> 1]).
true_divide(a, n) == [num |-> a \div Gcd(a, n), den |-> n \div Gcd(a, n)]

(***************************************************************************)
(* jax.random: a key determines the keys split from it and the numbers     *)
(* drawn with it.  The hash is a stand-in; only its being a function of    *)
(* the key (and the position) is taken from the library.                   *)
(***************************************************************************)
split(key, num) == [i \in 1..num |-> (3 * key + 2 * i + 1) % Cardinality(Keys)]

draw(key, pos) == ((key * (pos + 1) + pos) % 3) - 1

\* random.normal(key, shape) for shape (n,) and shape (n, m).
normal(key, shape) ==
    IF Len(shape) = 1
    THEN [i \in 1..shape[1] |-> draw(key, i)]
    ELSE [i \in 1..shape[1] |->
            [j \in 1..shape[2] |-> draw(key, (i - 1) * shape[2] + j)]]

\* scale * a for a vector or a matrix a, in units of 1e-2.
scale == 1

times_vector(c, a) == [i \in 1..Len(a) |-> c * a[i]]

times_matrix(c, a) == [i \in 1..Len(a) |-> times_vector(c, a[i])]

(***************************************************************************)
(* initialize_mlp                                                          *)
(***************************************************************************)
\* initialize_layer drawing the weight with shape (m, n).
initialize_layer_transposed(m, n, key) ==
    LET keys == split(key, 2)
        w_key == keys[1]
        b_key == keys[2]
    IN  <<times_matrix(scale, normal(w_key, <<m, n>>)),
          times_vector(scale, normal(b_key, <<n>>))>>

initialize_layer(m, n, key) ==
    LET keys == split(key, 2)
        w_key == keys[1]
        b_key == keys[2]
    IN  <<times_matrix(scale, normal(w_key, <<n, m>>)),
          times_vector(scale, normal(b_key, <<n>>))>>

\* zip(a, b, c): as long as the shortest of the three.
zip(a, b, c) ==
    [i \in 1..Min2(Len(a), Min2(Len(b), Len(c))) |-> <<a[i], b[i], c[i]>>]

\* sizes[:-1] and sizes[1:]
all_but_last(s) == SubSeq(s, 1, Len(s) - 1)

all_but_first(s) == SubSeq(s, 2, Len(s))

initialize_mlp(sizes, key) ==
    LET keys == split(key, Len(sizes))
        zipped == zip(all_but_last(sizes), all_but_first(sizes), keys)
    IN  [i \in 1..Len(zipped) |->
            initialize_layer(zipped[i][1], zipped[i][2], zipped[i][3])]

(***************************************************************************)
(* forward_pass and batch_forward                                          *)
(***************************************************************************)
relu_layer(layer, x) == ReLU(add(dot(layer[1], x), layer[2]))

\* for w, b in params[:-1]: activations = relu_layer([w, b], activations)
hidden_layers(layers) == all_but_last(layers)

RECURSIVE hidden_loop(_, _)
hidden_loop(layers, activations) ==
    IF Len(layers) = 0
    THEN activations
    ELSE hidden_loop(Tail(layers),
                     relu_layer(<<Head(layers)[1], Head(layers)[2]>>, activations))

\* The final layer passed through ReLU like the hidden ones.
final_logits_rectified(final, activations) ==
    ReLU(add(dot(final[1], activations), final[2]))

final_logits(final, activations) == add(dot(final[1], activations), final[2])

forward_pass(layers, in_array) ==
    LET activations == hidden_loop(hidden_layers(layers), in_array)
        logits == final_logits(layers[Len(layers)], activations)
    IN  subtract(logits, logsumexp(logits))

\* forward_pass applied to the first row for every row of the batch.
batch_forward_unmapped(layers, X) == [i \in 1..Len(X) |-> forward_pass(layers, X[1])]

\* vmap(forward_pass, in_axes=(None, 0), out_axes=0)
batch_forward(layers, X) == [i \in 1..Len(X) |-> forward_pass(layers, X[i])]

(***************************************************************************)
(* one_hot, loss, accuracy                                                 *)
(***************************************************************************)
\* one_hot comparing against 1..k in place of np.arange(k).
one_hot_from_one(x, k) ==
    [i \in 1..Len(x) |-> [j \in 1..k |-> IF x[i] = j THEN 1 ELSE 0]]

\* np.array(x[:, None] == np.arange(k), dtype): True becomes 1, False 0.
one_hot(x, k) ==
    [i \in 1..Len(x) |-> [j \in 1..k |-> IF x[i] = arange(k)[j] THEN 1 ELSE 0]]

\* -np.sum(preds * targets): a real number, kept symbolic.
loss(layers, in_arrays, targets) ==
    [neg_sum_of |-> [preds |-> batch_forward(layers, in_arrays), times |-> targets]]

\* np.array(data).reshape(data.size(0), 28*28): every image of the batch,
\* a sequence of pixel rows, becomes one vector.
RECURSIVE flatten(_)
flatten(image) == IF Len(image) = 0 THEN <<>> ELSE Head(image) \o flatten(Tail(image))

reshape(data) == [i \in 1..Len(data) |-> flatten(data[i])]

\* The orders a shuffling sampler can draw for n examples.
Orders(n) == {f \in [1..n -> 1..n] : \A i, j \in 1..n : f[i] = f[j] => i = j}

\* enumerate(data_loader): the dataset in the order the sampler drew, cut
\* into batches of batch_size, the last one smaller when the sizes do not
\* divide (drop_last is left at its default, False).
enumerate(data_loader) ==
    LET n == Len(data_loader.dataset)
        b == data_loader.batch_size
        nb == (n + b - 1) \div b
        example(k, i) == data_loader.dataset[data_loader.order[(k - 1) * b + i]]
    IN  [k \in 1..nb |->
            LET size == Min2(b, n - (k - 1) * b)
            IN  [data |-> [i \in 1..size |-> example(k, i).image],
                 target |-> [i \in 1..size |-> example(k, i).label]]]

\* num_classes = 10
num_classes == 10

\* np.sum(predicted_class == target_class)
count_equal(a, b) == Cardinality({i \in 1..Len(a) : a[i] = b[i]})

\* The body of accuracy's loop, over the batches still to come.
RECURSIVE accuracy_loop(_, _, _)
accuracy_loop(layers, todo, acc_total) ==
    IF Len(todo) = 0
    THEN acc_total
    ELSE LET images == reshape(Head(todo).data)
             targets == one_hot(Head(todo).target, num_classes)
             target_class == [i \in 1..Len(targets) |-> argmax(targets[i])]
             preds == batch_forward(layers, images)
             predicted_class == [i \in 1..Len(preds) |-> argmax_shifted(preds[i])]
         IN  accuracy_loop(layers, Tail(todo),
                           acc_total + count_equal(predicted_class, target_class))

\* accuracy dividing by batches times batch size, not by the dataset's length.
accuracy_by_batches(layers, data_loader) ==
    true_divide(accuracy_loop(layers, enumerate(data_loader), 0),
                Len(enumerate(data_loader)) * data_loader.batch_size)

accuracy(layers, data_loader) ==
    true_divide(accuracy_loop(layers, enumerate(data_loader), 0),
                Len(data_loader.dataset))

(***************************************************************************)
(* Inputs of the calls.                                                    *)
(***************************************************************************)
SeqsOf(S, lo, hi) == UNION {[1..n -> S] : n \in lo..hi}

\* layer_sizes = [784, 512, 512, 10], with one pixel per image and two
\* units per hidden layer.
layer_sizes == <<1, 2, 2, num_classes>>

\* An image is a sequence of pixel rows (28 x 28 in MNIST, 1 x 1 here).
Images == {<<<<p>>>> : p \in Pixels}

\* The labels the examples carry.
Labels == {0, 1}

Examples == [image : Images, label : Labels]

\* A loader at the start of one iteration: its dataset, its batch size and
\* the order its sampler drew for this iteration.
Loaders(maxlen) ==
    UNION {[dataset : {d}, batch_size : 1..maxlen, order : Orders(Len(d))] :
            d \in SeqsOf(Examples, 1, maxlen)}

NoCall == [fn |-> "none", args |-> <<>>, done |-> FALSE]

Calls(fn, Args) == [fn : {fn}, args : Args, done : {FALSE}]

\* The state of the training loop while a pure function is being called.
LoopIdle ==
    /\ pc = "idle"
    /\ num_epochs = 0
    /\ net_type = "MLP"
    /\ globals = {}
    /\ train_loader = <<>>
    /\ test_loader = <<>>
    /\ heap = <<>>
    /\ params = 0
    /\ opt_state = 0
    /\ epoch = 0
    /\ batches = <<>>
    /\ batch_idx = 0
    /\ start_time = 0
    /\ train_loss = <<>>
    /\ log_acc_train = <<>>
    /\ log_acc_test = <<>>
    /\ stdout = <<>>
    /\ failure = "none"
    /\ opt_calls = <<>>
    /\ fed = <<>>
    /\ evals = <<>>

Return(value) ==
    /\ ret' = value
    /\ call' = [call EXCEPT !.done = TRUE]
    /\ UNCHANGED <<scriptVars, inputVars, loopVars>>

(***************************************************************************)
(* one_hot(x, k) on label vectors x with entries in 0..k-1.                *)
(***************************************************************************)
OneHotInit ==
    /\ call \in UNION {Calls("one_hot", SeqsOf(0..(k - 1), 0, MaxLabels) \X {k}) :
                        k \in 1..MaxK}
    /\ ret = <<>>
    /\ LoopIdle
    /\ ScriptIdle

CallOneHot ==
    /\ call.fn = "one_hot" /\ ~call.done
    /\ Return(one_hot(call.args[1], call.args[2]))

OneHotSpec == OneHotInit /\ [][CallOneHot]_vars

(***************************************************************************)
(* initialize_mlp(sizes, key)                                              *)
(***************************************************************************)
InitMlpInit ==
    /\ call \in Calls("initialize_mlp", SeqsOf(1..MaxWidth, 1, MaxSizes) \X Keys)
    /\ ret = <<>>
    /\ LoopIdle
    /\ ScriptIdle

CallInitializeMlp ==
    /\ call.fn = "initialize_mlp" /\ ~call.done
    /\ Return(initialize_mlp(call.args[1], call.args[2]))

InitMlpSpec == InitMlpInit /\ [][CallInitializeMlp]_vars

(***************************************************************************)
(* forward_pass(params, in_array) on the parameter lists initialize_mlp    *)
(* returns for two or more widths, and input vectors of the first width.   *)
(***************************************************************************)
ForwardArgs ==
    UNION {{initialize_mlp(sizes, key) : key \in Keys} \X SeqsOf(Pixels, sizes[1], sizes[1]) :
            sizes \in SeqsOf(1..MaxWidth, 2, MaxSizes)}

ForwardInit ==
    /\ call \in Calls("forward_pass", ForwardArgs)
    /\ ret = <<>>
    /\ LoopIdle
    /\ ScriptIdle

CallForwardPass ==
    /\ call.fn = "forward_pass" /\ ~call.done
    /\ Return(forward_pass(call.args[1], call.args[2]))

ForwardSpec == ForwardInit /\ [][CallForwardPass]_vars

(***************************************************************************)
(* batch_forward(params, X) on parameter lists of one or two layers and    *)
(* batches of 0..MaxBatch rows of the first width.                         *)
(***************************************************************************)
BatchArgs ==
    UNION {{initialize_mlp(sizes, key) : key \in Keys} \X SeqsOf(SeqsOf(Pixels, sizes[1], sizes[1]), 0, MaxBatch) :
            sizes \in SeqsOf(1..2, 2, 3)}

BatchInit ==
    /\ call \in Calls("batch_forward", BatchArgs)
    /\ ret = <<>>
    /\ LoopIdle
    /\ ScriptIdle

CallBatchForward ==
    /\ call.fn = "batch_forward" /\ ~call.done
    /\ Return(batch_forward(call.args[1], call.args[2]))

BatchSpec == BatchInit /\ [][CallBatchForward]_vars

(***************************************************************************)
(* accuracy(params, data_loader)                                           *)
(***************************************************************************)
AccuracyInit ==
    /\ call \in Calls("accuracy",
                       {initialize_mlp(layer_sizes, key) : key \in Keys} \X Loaders(MaxSplit))
    /\ ret = <<>>
    /\ LoopIdle
    /\ ScriptIdle

CallAccuracy ==
    /\ call.fn = "accuracy" /\ ~call.done
    /\ Return(accuracy(call.args[1], call.args[2]))

AccSpec == AccuracyInit /\ [][CallAccuracy]_vars

(***************************************************************************)
(* Properties of the pure functions.                                       *)
(***************************************************************************)
Returned(fn) == call.fn = fn /\ call.done

\* The examples of a split whose predicted class equals their label.
Correct(layers, dataset) ==
    {i \in 1..Len(dataset) :
        argmax_shifted(forward_pass(layers, flatten(dataset[i].image))) = dataset[i].label}

\* C6: accuracy returns (number of examples of the whole split whose
\* predicted class equals the target class) / (number of examples of the
\* split), whatever the batch size and the order, a smaller final batch
\* included: 1.0 when every prediction is right, 0.0 when every one is wrong.
C6_AccuracyIsFractionCorrect ==
    Returned("accuracy") =>
        LET dataset == call.args[2].dataset
            n == Len(dataset)
            c == Cardinality(Correct(call.args[1], dataset))
        IN  /\ ret.den > 0
            /\ ret.num * n = c * ret.den
            /\ Gcd(ret.num, ret.den) = 1
            /\ c = n => ret = [num |-> 1, den |-> 1]
            /\ c = 0 => ret = [num |-> 0, den |-> 1]

\* C6 witness: a split of three examples in batches of two (a full batch and
\* a smaller final one), some predictions right and some wrong.
C6_Witness ==
    /\ Returned("accuracy")
    /\ Len(call.args[2].dataset) = 3
    /\ call.args[2].batch_size = 2
    /\ Cardinality(Correct(call.args[1], call.args[2].dataset)) = 2
    /\ ret = [num |-> 2, den |-> 3]

\* C7: for every k >= 1 and every label l in 0..k-1, the arg-max of the
\* one-hot row of l is l, and the row has exactly one 1, at index l, and
\* k-1 zeros.
C7_OneHotRoundTrip ==
    Returned("one_hot") =>
        LET x == call.args[1]
            k == call.args[2]
        IN  /\ Len(ret) = Len(x)
            /\ \A i \in 1..Len(x) :
                    /\ Len(ret[i]) = k
                    /\ argmax(ret[i]) = x[i]
                    /\ {j \in 1..k : ret[i][j] = 1} = {x[i] + 1}
                    /\ Cardinality({j \in 1..k : ret[i][j] = 0}) = k - 1

\* C7 witness: a vector holding the smallest and the largest label of k = 3.
C7_Witness ==
    /\ Returned("one_hot")
    /\ call.args = <<(<<2, 0>>), 3>>
    /\ ret = <<(<<0, 0, 1>>), (<<1, 0, 0>>)>>

\* C8: for L >= 2 widths initialize_mlp returns L-1 (weight, bias) pairs in
\* layer order, pair i with a weight of shape (sizes[i+1], sizes[i]) and a
\* bias of shape (sizes[i+1],) (i counted from 0); the L-th key is unused.
C8_InitializeMlpShapes ==
    (Returned("initialize_mlp") /\ Len(call.args[1]) >= 2) =>
        LET sizes == call.args[1]
        IN  /\ Len(ret) = Len(sizes) - 1
            /\ \A i \in 1..Len(ret) :
                    /\ Len(ret[i]) = 2
                    /\ Len(ret[i][1]) = sizes[i + 1]
                    /\ \A r \in 1..Len(ret[i][1]) : Len(ret[i][1][r]) = sizes[i]
                    /\ Len(ret[i][2]) = sizes[i + 1]

\* C8 witness: four widths, the layers not square.
C8_Witness ==
    /\ Returned("initialize_mlp")
    /\ call.args[1] = <<2, 1, 2, 1>>
    /\ Len(ret) = 3

\* The activations after the first n layers of a forward pass, every one of
\* them a hidden layer: an affine map followed by ReLU.
RECURSIVE ActivationsAfter(_, _, _)
ActivationsAfter(layers, x, n) ==
    IF n = 0
    THEN x
    ELSE ReLU(add(dot(layers[n][1], ActivationsAfter(layers, x, n - 1)), layers[n][2]))

\* The logits of the last layer: an affine map of the last hidden activations.
LastLogits(layers, x) ==
    LET last == layers[Len(layers)]
    IN  add(dot(last[1], ActivationsAfter(layers, x, Len(layers) - 1)), last[2])

\* C10: forward_pass applies the layers in list order, ReLU after every
\* affine map but the last, and returns the last layer's logits minus their
\* log-sum-exp; a single-layer list sees no ReLU at all.
C10_ForwardPassStructure ==
    Returned("forward_pass") =>
        LET logits == LastLogits(call.args[1], call.args[2])
        IN  ret = [vector |-> logits, minus |-> [logsumexp_of |-> logits]]

\* C10 witness: three layers, a hidden unit that ReLU cut to 0 and a
\* negative logit that stayed negative.
C10_Witness ==
    /\ Returned("forward_pass")
    /\ Len(call.args[1]) = 3
    /\ \E i \in 1..Len(call.args[1][1][1]) :
            add(dot(call.args[1][1][1], call.args[2]), call.args[1][1][2])[i] < 0
    /\ \E i \in 1..Len(ret.vector) : ret.vector[i] < 0

\* The batch X with its rows in the opposite order.
Reversed(X) == [i \in 1..Len(X) |-> X[Len(X) + 1 - i]]

\* The batch X with every row but row i replaced by its negation.
OthersChanged(X, i) ==
    [r \in 1..Len(X) |-> IF r = i THEN X[r] ELSE [c \in 1..Len(X[r]) |-> 0 - X[r][c]]]

\* C11: batch_forward is the per-example map of forward_pass: row i of its
\* result is forward_pass(params, X[i]), and it is the same when the other
\* rows of X are changed, reordered or removed.
C11_BatchForwardIsRowwiseMap ==
    Returned("batch_forward") =>
        LET layers == call.args[1]
            X == call.args[2]
        IN  /\ Len(ret) = Len(X)
            /\ \A i \in 1..Len(X) :
                    /\ ret[i] = forward_pass(layers, X[i])
                    /\ batch_forward(layers, OthersChanged(X, i))[i] = ret[i]
                    /\ batch_forward(layers, Reversed(X))[Len(X) + 1 - i] = ret[i]
                    /\ batch_forward(layers, <<X[i]>>)[1] = ret[i]

\* C11 witness: a batch of two rows through a hidden layer, whose rows get
\* different results.
C11_Witness ==
    /\ Returned("batch_forward")
    /\ Len(call.args[1]) = 2
    /\ Len(call.args[2]) = 2
    /\ ret[1] # ret[2]

(***************************************************************************)
(* The optimizer, optimizers.adam(step_size), and update.                  *)
(*                                                                         *)
(* The gradient and the Adam step are real-valued and opaque to the        *)
(* notebook.  Each is modelled by a stand-in that is, like the original, a *)
(* function of the same arguments: the gradient an integer, the step a     *)
(* move inside the finite family of parameter lists initialize_mlp draws.  *)
(***************************************************************************)
\* value_and_grad(loss)(params, x, y)[1]
grad_loss(layers, x, y) ==
    SumSeq([i \in 1..Len(x) |-> SumSeq(x[i]) + argmax(y[i])])
        + SumSeq(layers[Len(layers)][2])

\* opt_init(params): the parameters and the (zero) moment estimates.
opt_init(layers) == [x |-> layers, m |-> 0]

\* opt_update(i, grads, opt_state): a new optimizer state.
opt_update(i, grads, state) ==
    LET m == (state.m + grads + i + 1) % Cardinality(Keys)
    IN  [x |-> initialize_mlp(layer_sizes, m), m |-> m]

get_params(state) == state.x

\* update returning the parameters of the optimizer state it was given.
update_stale_params(layers, x, y, state) ==
    LET value == loss(layers, x, y)
        grads == grad_loss(layers, x, y)
        new_state == opt_update(0, grads, state)
    IN  [params |-> get_params(state), opt_state |-> new_state, value |-> value,
         calls |-> <<[i |-> 0, grads |-> grads]>>]

\* update passing the optimizer a step index that advances with its state.
update_advancing_step(layers, x, y, state) ==
    LET value == loss(layers, x, y)
        grads == grad_loss(layers, x, y)
        new_state == opt_update(state.m, grads, state)
    IN  [params |-> get_params(new_state), opt_state |-> new_state, value |-> value,
         calls |-> <<[i |-> state.m, grads |-> grads]>>]

\* update applying the optimizer twice to one batch.
update_twice(layers, x, y, state) ==
    LET value == loss(layers, x, y)
        grads == grad_loss(layers, x, y)
        new_state == opt_update(0, grads, opt_update(0, grads, state))
    IN  [params |-> get_params(new_state), opt_state |-> new_state, value |-> value,
         calls |-> <<[i |-> 0, grads |-> grads], [i |-> 0, grads |-> grads]>>]

\* update(params, x, y, opt_state): what it returns, and (calls) the
\* arguments of the opt_update calls it made.
update(layers, x, y, state) ==
    LET value == loss(layers, x, y)
        grads == grad_loss(layers, x, y)
        new_state == opt_update(0, grads, state)
    IN  [params |-> get_params(new_state), opt_state |-> new_state, value |-> value,
         calls |-> <<[i |-> 0, grads |-> grads]>>]

(***************************************************************************)
(* Objects.  A Python name holds a reference to an object; heap[r] is the  *)
(* value of object r.  jax arrays are immutable and opt_update returns a   *)
(* new state: a result is stored as a new object and the name rebound.     *)
(***************************************************************************)
\* Storing a result by overwriting the object the name referred to, when
\* the name was bound.
store_in_place(h, ref, value) ==
    IF ref = 0
    THEN [heap |-> Append(h, value), ref |-> Len(h) + 1]
    ELSE [heap |-> [h EXCEPT ![ref] = value], ref |-> ref]

\* name = <expression>, the name referring to object ref (0: unbound) before.
store(h, ref, value) == [heap |-> Append(h, value), ref |-> Len(h) + 1]

(***************************************************************************)
(* run_mnist_training_loop(num_epochs, opt_state, net_type)                *)
(***************************************************************************)
\* key = random.PRNGKey(1)
seed == 1

\* The examples of a split of n examples.
Split(n) == [i \in 1..n |-> [image |-> <<<<1 - 2 * (i % 2)>>>>, label |-> (i \div 2) % 2]]

\* The dataset order, for the iterations inside accuracy: its result does
\* not depend on the order the sampler draws.
InOrder(loader) ==
    [dataset |-> loader.dataset, batch_size |-> loader.batch_size,
     order |-> [i \in 1..Len(loader.dataset) |-> i]]

\* time.time(): the reading of the clock, kept symbolic; readings are
\* numbered in the order they are taken.
time_time(n) == [clock_reading |-> n]

\* The names a run needs that no cell of the notebook binds: the notebook
\* calls time.time() and has no `import time`.  Whether the kernel holds
\* the name depends on what else was run in it.
Unimported == {"time"}

\* An exception that is recorded and swallowed: the run goes on.
RaiseAndContinue(kind) ==
    /\ failure' = kind
    /\ UNCHANGED <<scriptVars, callVars, inputVars, pc, heap, params, opt_state, epoch, batches,
                   batch_idx, start_time, train_loss, log_acc_train, log_acc_test,
                   stdout, opt_calls, fed, evals>>

\* What an uncaught exception does: the run ends where it was raised.
Raise(kind) ==
    /\ pc' = "failed"
    /\ failure' = kind
    /\ UNCHANGED <<scriptVars, callVars, inputVars, heap, params, opt_state, epoch, batches,
                   batch_idx, start_time, train_loss, log_acc_train, log_acc_test,
                   stdout, opt_calls, fed, evals>>

LoopInit ==
    /\ call = NoCall
    /\ ScriptIdle
    /\ ret = <<>>
    /\ num_epochs \in 0..MaxEpochs
    /\ net_type \in {"MLP", "CNN"}
    /\ globals \in SUBSET Unimported
    /\ train_loader \in {[dataset |-> Split(n), batch_size |-> batch_size_train] :
                            n \in 1..MaxTrain}
    /\ test_loader = [dataset |-> Split(3), batch_size |-> batch_size_test]
    \* params = initialize_mlp(layer_sizes, key); opt_state = opt_init(params)
    /\ heap = <<initialize_mlp(layer_sizes, seed), opt_init(initialize_mlp(layer_sizes, seed))>>
    /\ opt_state = 2
    /\ params = 0
    /\ pc = "uninitialized"
    /\ epoch = 0
    /\ batches = <<>>
    /\ batch_idx = 0
    /\ start_time = time_time(0)
    /\ train_loss = <<>>
    /\ log_acc_train = <<>>
    /\ log_acc_test = <<>>
    /\ stdout = <<>>
    /\ failure = "none"
    /\ opt_calls = <<>>
    /\ fed = <<>>
    /\ evals = <<>>

\* The start of the run without the initial accuracy evaluation.
BeginWithoutInitialAccuracy ==
    /\ pc = "uninitialized"
    /\ LET got == store(heap, params, get_params(heap[opt_state]))
       IN  /\ heap' = got.heap
           /\ params' = got.ref
    /\ train_loss' = <<>>
    /\ log_acc_train' = <<>>
    /\ log_acc_test' = <<>>
    /\ pc' = "epoch_complete"
    /\ UNCHANGED <<scriptVars, callVars, inputVars, opt_state, epoch, batches, batch_idx,
                   start_time, stdout, failure, opt_calls, fed, evals>>

\* Lines 411-420: the empty logs, the initial parameters and their accuracy.
Begin ==
    /\ pc = "uninitialized"
    /\ LET got == store(heap, params, get_params(heap[opt_state]))
           train_acc == accuracy(got.heap[got.ref], InOrder(train_loader))
           test_acc == accuracy(got.heap[got.ref], InOrder(test_loader))
       IN  /\ heap' = got.heap
           /\ params' = got.ref
           /\ train_loss' = <<>>
           /\ log_acc_train' = Append(<<>>, train_acc)
           /\ log_acc_test' = Append(<<>>, test_acc)
           /\ evals' = Append(evals, [params |-> got.ref, updates |-> Len(opt_calls)])
    /\ pc' = "epoch_complete"
    /\ UNCHANGED <<scriptVars, callVars, inputVars, opt_state, epoch, batches, batch_idx,
                   start_time, stdout, failure, opt_calls, fed>>

\* accuracy raising while it loads the data of a split.
BeginFails ==
    /\ pc = "uninitialized"
    /\ Raise("IOError")

\* Line 423, range(num_epochs) not exhausted, line 424 and the start of
\* enumerate(train_loader): the sampler draws the order of this epoch.
StartEpoch ==
    /\ pc = "epoch_complete"
    /\ epoch < num_epochs
    /\ "time" \in globals
    /\ start_time' = time_time(2 * epoch + 1)
    /\ \E order \in Orders(Len(train_loader.dataset)) :
            batches' = enumerate([dataset |-> train_loader.dataset,
                                  batch_size |-> train_loader.batch_size,
                                  order |-> order])
    /\ batch_idx' = 0
    /\ fed' = <<>>
    /\ pc' = "epoch_running"
    /\ UNCHANGED <<scriptVars, callVars, inputVars, heap, params, opt_state, epoch, train_loss,
                   log_acc_train, log_acc_test, stdout, failure, opt_calls, evals>>

\* Line 424 in a kernel where the name time is unbound.
StartEpochNameError ==
    /\ pc = "epoch_complete"
    /\ epoch < num_epochs
    /\ "time" \notin globals
    /\ Raise("NameError")

\* Lines 425-434 for net_type "MLP": one batch, one update, one loss logged.
TrainStep ==
    /\ pc = "epoch_running"
    /\ batch_idx < Len(batches)
    /\ net_type = "MLP"
    /\ LET batch == batches[batch_idx + 1]
           x == reshape(batch.data)
           y == one_hot(batch.target, num_classes)
           got == update(heap[params], x, y, heap[opt_state])
           kept_state == store(heap, opt_state, got.opt_state)
           kept_params == store(kept_state.heap, params, got.params)
       IN  /\ heap' = kept_params.heap
           /\ opt_state' = kept_state.ref
           /\ params' = kept_params.ref
           /\ train_loss' = Append(train_loss, got.value)
           /\ opt_calls' = opt_calls \o [n \in 1..Len(got.calls) |->
                                [i |-> got.calls[n].i, grads |-> got.calls[n].grads,
                                 params |-> kept_params.ref]]
           /\ fed' = Append(fed, batch)
    /\ batch_idx' = batch_idx + 1
    /\ UNCHANGED <<scriptVars, callVars, inputVars, pc, epoch, batches, start_time, log_acc_train,
                   log_acc_test, stdout, failure, evals>>

\* Lines 429-433 for net_type "CNN": the images are not flattened, and
\* np.dot in forward_pass rejects their shape.
TrainStepShapeError ==
    /\ pc = "epoch_running"
    /\ batch_idx < Len(batches)
    /\ net_type = "CNN"
    /\ Raise("TypeError")

\* The loader failing to produce the next batch, or update failing.
TrainStepFails ==
    /\ pc = "epoch_running"
    /\ batch_idx < Len(batches)
    /\ \E kind \in {"IOError", "RuntimeError"} : Raise(kind)

\* The status line of an epoch with the 0-based epoch number.
status_line_zero_based(n, epoch_time, train_acc, test_acc) ==
    [Epoch |-> n, T |-> epoch_time, TrainA |-> train_acc, TestA |-> test_acc]

\* "Epoch {} | T: {:0.2f} | Train A: {:0.3f} | Test A: {:0.3f}".format(epoch+1, ...)
status_line(n, epoch_time, train_acc, test_acc) ==
    [Epoch |-> n + 1, T |-> epoch_time, TrainA |-> train_acc, TestA |-> test_acc]

\* Lines 436-442, once enumerate(train_loader) is exhausted.
EndEpoch ==
    /\ pc = "epoch_running"
    /\ batch_idx = Len(batches)
    /\ LET epoch_time == [from |-> start_time, to |-> time_time(2 * epoch + 2)]
           train_acc == accuracy(heap[params], InOrder(train_loader))
           test_acc == accuracy(heap[params], InOrder(test_loader))
       IN  /\ log_acc_train' = Append(log_acc_train, train_acc)
           /\ log_acc_test' = Append(log_acc_test, test_acc)
           /\ stdout' = Append(stdout, status_line(epoch, epoch_time, train_acc, test_acc))
           /\ evals' = Append(evals, [params |-> params, updates |-> Len(opt_calls)])
    /\ epoch' = epoch + 1
    /\ pc' = "epoch_complete"
    /\ UNCHANGED <<scriptVars, callVars, inputVars, heap, params, opt_state, batches, batch_idx,
                   start_time, train_loss, failure, opt_calls, fed>>

\* accuracy raising at the end of an epoch.
EndEpochFails ==
    /\ pc = "epoch_running"
    /\ batch_idx = Len(batches)
    /\ Raise("IOError")

\* Line 444, once range(num_epochs) is exhausted.
ReturnLogs ==
    /\ pc = "epoch_complete"
    /\ epoch = num_epochs
    /\ pc' = "finished"
    /\ UNCHANGED <<scriptVars, callVars, inputVars, heap, params, opt_state, epoch, batches,
                   batch_idx, start_time, train_loss, log_acc_train, log_acc_test,
                   stdout, failure, opt_calls, fed, evals>>

Next ==
    \/ Begin
    \/ BeginFails
    \/ StartEpoch
    \/ StartEpochNameError
    \/ TrainStep
    \/ TrainStepShapeError
    \/ TrainStepFails
    \/ EndEpoch
    \/ EndEpochFails
    \/ ReturnLogs

Spec == LoopInit /\ [][Next]_vars

(***************************************************************************)
(* Properties of run_mnist_training_loop.                                  *)
(***************************************************************************)
\* The number of batches enumerate(train_loader) yields in one epoch.
BatchesPerEpoch ==
    (Len(train_loader.dataset) + train_loader.batch_size - 1) \div train_loader.batch_size

\* The failures that come from outside the notebook's code: a loader that
\* cannot read its data, a device that cannot run the update.
ExternalFailures == {"IOError", "RuntimeError"}

\* The examples of a sequence of batches, in the order they come.
RECURSIVE ExamplesOf(_)
ExamplesOf(bs) ==
    IF Len(bs) = 0
    THEN <<>>
    ELSE [i \in 1..Len(Head(bs).data) |->
              [image |-> Head(bs).data[i], label |-> Head(bs).target[i]]]
         \o ExamplesOf(Tail(bs))

\* C1: for every num_epochs >= 0 and every training set, a run (called as
\* the notebook calls it, net_type "MLP", its loaders and its device not
\* failing) reaches the finished state, and it does so after exactly
\* num_epochs epochs.  Stated for a finite run: nothing but an external
\* failure stops the run short of its return, and the finished state has
\* seen num_epochs epochs, never fewer, never more.
C1_RunReturnsAfterNumEpochs ==
    /\ (pc = "failed" /\ net_type = "MLP") => failure \in ExternalFailures
    /\ pc = "finished" => (epoch = num_epochs /\ Len(stdout) = num_epochs)

\* C2: in every epoch each batch the loader yields is passed to update
\* exactly once, in order; the two accuracies are evaluated only after the
\* last batch, with the parameters the last update produced, appended to
\* their logs and printed in one status line; the status lines carry the
\* epoch numbers 1, 2, ..., num_epochs, one per epoch.
C2_EpochOrder ==
    pc # "idle" =>
        /\ pc = "epoch_running" =>
                /\ fed = SubSeq(batches, 1, batch_idx)
                /\ Len(batches) = BatchesPerEpoch
                /\ \E order \in Orders(Len(train_loader.dataset)) :
                        ExamplesOf(batches) =
                            [i \in 1..Len(train_loader.dataset) |->
                                train_loader.dataset[order[i]]]
        /\ Len(stdout) = epoch
        /\ Len(log_acc_train) = Len(log_acc_test)
        /\ Len(log_acc_train) = Len(evals)
        /\ Len(log_acc_train) \in {0, epoch + 1}
        /\ \A n \in 1..Len(stdout) :
                /\ stdout[n].Epoch = n
                /\ stdout[n].TrainA = log_acc_train[n + 1]
                /\ stdout[n].TestA = log_acc_test[n + 1]
                /\ evals[n + 1].updates = n * BatchesPerEpoch
                /\ evals[n + 1].params = opt_calls[n * BatchesPerEpoch].params
                /\ log_acc_train[n + 1] =
                        accuracy(heap[opt_calls[n * BatchesPerEpoch].params],
                                 InOrder(train_loader))
                /\ log_acc_test[n + 1] =
                        accuracy(heap[opt_calls[n * BatchesPerEpoch].params],
                                 InOrder(test_loader))
        /\ pc = "finished" => Len(stdout) = num_epochs

\* C2 witness: a finished run of two epochs of two batches each, whose
\* second epoch changed the training accuracy.
C2_Witness ==
    /\ pc = "finished"
    /\ num_epochs = 2
    /\ BatchesPerEpoch = 2
    /\ Len(stdout) = 2
    /\ stdout[2].Epoch = 2
    /\ stdout[2].TrainA # stdout[1].TrainA

\* C3: every training step applies one optimizer update and appends one
\* loss, so train_loss is as long as the number of updates applied, and at
\* return it holds num_epochs * (batches per epoch) values.
C3_OneUpdateOneLoss ==
    pc # "idle" =>
        /\ Len(train_loss) = Len(opt_calls)
        /\ Len(train_loss) = epoch * BatchesPerEpoch + batch_idx * (IF pc = "epoch_complete" \/ pc = "finished" THEN 0 ELSE 1)
        /\ pc = "finished" => Len(train_loss) = num_epochs * BatchesPerEpoch

\* C3 witness: a run of two epochs of two batches returns four losses.
C3_Witness ==
    /\ pc = "finished"
    /\ num_epochs = 2
    /\ BatchesPerEpoch = 2
    /\ Len(train_loss) = 4
    /\ Len(opt_calls) = 4

\* C4: a failing step is not caught or retried: the run halts there, and
\* no update is applied and nothing is appended to train_loss,
\* log_acc_train or log_acc_test afterwards.
C4_FailureHalts ==
    /\ [](failure # "none" => pc = "failed")
    /\ [][failure # "none" =>
            /\ pc' = "failed"
            /\ UNCHANGED <<train_loss, log_acc_train, log_acc_test, stdout,
                           opt_calls, heap, params, opt_state, epoch, batch_idx>>]_vars

\* C4 witness: a run halted in its second epoch, after three updates.
C4_Witness ==
    /\ pc = "failed"
    /\ failure = "IOError"
    /\ Len(train_loss) = 3
    /\ Len(log_acc_train) = 2

\* C5: an optimizer step produces new objects and never changes an
\* existing one: every object keeps its value, the names params and
\* opt_state are only ever rebound to objects that did not exist before,
\* and the parameter list and optimizer state passed into the run keep the
\* values they were created with.
C5_NoObjectMutated ==
    /\ [](pc # "idle" =>
            /\ heap[1] = initialize_mlp(layer_sizes, seed)
            /\ heap[2] = opt_init(initialize_mlp(layer_sizes, seed)))
    /\ [][/\ \A r \in 1..Len(heap) : Len(heap') >= r /\ heap'[r] = heap[r]
          /\ params' # params => params' > Len(heap)
          /\ opt_state' # opt_state => opt_state' > Len(heap)]_vars

\* C5 witness: after two updates the current objects differ from the ones
\* passed in, and from each other's predecessors.
C5_Witness ==
    /\ Len(opt_calls) >= 2
    /\ opt_state > 2
    /\ heap[opt_state] # heap[2]
    /\ heap[params] # heap[1]
    /\ heap[params] # heap[opt_calls[1].params]

\* C13: at every point of the run after its first statement the loop's
\* params are get_params of the loop's opt_state, and every gradient is
\* computed at the parameters the optimizer state of that moment represents.
C13_ParamsFollowOptState ==
    /\ [](params # 0 => heap[params] = get_params(heap[opt_state]))
    /\ [][Len(opt_calls') > Len(opt_calls) =>
            LET batch == fed'[Len(fed')]
            IN  opt_calls'[Len(opt_calls')].grads =
                    grad_loss(get_params(heap[opt_state]), reshape(batch.data),
                              one_hot(batch.target, num_classes))]_vars

\* C13 witness: two updates applied, the optimizer state and the parameters
\* both moved away from the initial ones.
C13_Witness ==
    /\ pc = "epoch_running"
    /\ Len(opt_calls) = 2
    /\ heap[opt_state] # heap[2]
    /\ heap[params] # heap[1]
    /\ heap[params] = get_params(heap[opt_state])

\* C14: every call of update passes step index 0 to opt_update, however
\* many optimizer steps the run has applied.
C14_StepIndexAlwaysZero ==
    \A n \in 1..Len(opt_calls) : opt_calls[n].i = 0

\* C14 witness: the third optimizer step of a run, in its second epoch,
\* taken from a state that earlier steps have moved, with step index 0.
C14_Witness ==
    /\ Len(opt_calls) = 3
    /\ epoch = 1
    /\ heap[opt_calls[2].params] # heap[1]
    /\ opt_calls[3].i = 0

\* C15: the accuracy of the initial parameters on both splits is logged
\* before the first optimizer update; the two logs have equal length; once
\* the initial accuracies are logged that length is the number of completed
\* epochs plus one, and at return it is num_epochs + 1.
C15_InitialAccuracyLogged ==
    pc # "idle" =>
        /\ Len(log_acc_train) = Len(log_acc_test)
        /\ pc \in {"epoch_running", "epoch_complete", "finished"} =>
                Len(log_acc_train) = epoch + 1
        /\ pc = "failed" =>
                \/ Len(log_acc_train) = epoch + 1
                \/ Len(log_acc_train) = 0 /\ Len(opt_calls) = 0 /\ epoch = 0
        /\ Len(opt_calls) > 0 =>
                /\ evals[1].updates = 0
                /\ log_acc_train[1] = accuracy(heap[1], InOrder(train_loader))
                /\ log_acc_test[1] = accuracy(heap[1], InOrder(test_loader))
        /\ pc = "finished" => Len(log_acc_train) = num_epochs + 1

\* C15 witness: a run with num_epochs = 0 has returned, with one entry in
\* each log and no update applied.
C15_Witness ==
    /\ pc = "finished"
    /\ num_epochs = 0
    /\ Len(log_acc_train) = 1
    /\ Len(log_acc_test) = 1
    /\ Len(opt_calls) = 0

(***************************************************************************)
(* The density visualizer cell of the bivariate normal notebook.  Numbers  *)
(* are in tenths: 0.8 is 8 and 1 is 10.                                    *)
(***************************************************************************)
\* cov_val = [-0.8, 0, 0.8]
cov_val == <<-8, 0, 8>>

\* np.array([[1, val], [val, 1]])
covariance_matrix(val) == <<<<10, val>>, <<val, 10>>>>

\* np.linspace(a, b, num=num): num points from a to b, both included.
linspace(a, b, num) == [k \in 1..num |-> a + ((k - 1) * (b - a)) \div (num - 1)]

\* np.meshgrid(x, y): X[i][j] = x[j] and Y[i][j] = y[i].
meshgrid(x, y) ==
    [X |-> [i \in 1..Len(y) |-> [j \in 1..Len(x) |-> x[j]]],
     Y |-> [i \in 1..Len(y) |-> [j \in 1..Len(x) |-> y[i]]]]

\* np.zeros(shape)
zeros(shape) == [i \in 1..shape[1] |-> [j \in 1..shape[2] |-> 0]]

\* The grid of an iteration: lines 101-106 with the cell's cov.
grid(c) ==
    LET sigma_1 == c[1][1]
        sigma_2 == c[2][2]
    IN  meshgrid(linspace((0 - 3) * sigma_1, 3 * sigma_1, GridNum),
                 linspace((0 - 3) * sigma_2, 3 * sigma_2, GridNum))

\* d.pdf(point) of a distribution object d: a real number, kept symbolic.
distr_pdf(d, point) == [density_of |-> d, at |-> point]

\* The names the cell reads that no cell of the notebook binds before the
\* read: mean and cov at line 72 (bound later, at lines 88 and 98) and
\* distr at line 113 (bound nowhere).  Whether the kernel holds them
\* depends on what else was run in it.
StaleNames == {"mean", "cov", "distr"}

\* The objects such a kernel can hold under the names cov and distr.
StaleCovariances == {covariance_matrix(cov_val[n]) : n \in 1..Len(cov_val)}

StaleDistributions == [mean : {<<0, 0>>}, cov : StaleCovariances]

\* An uncaught exception in the cell: the execution ends where it was raised.
CellRaise(kind) ==
    /\ cell_line' = "failed"
    /\ raised' = kind
    /\ UNCHANGED <<namespace, distr, cov, idx, pdf, filled, fig, pdf_list,
                   callVars, inputVars, loopVars>>

ScriptInit ==
    /\ call = NoCall
    /\ ret = <<>>
    /\ LoopIdle
    /\ cell_line = "start"
    /\ namespace \in SUBSET StaleNames
    /\ distr \in (IF "distr" \in namespace THEN StaleDistributions ELSE {<<>>})
    /\ cov \in (IF "cov" \in namespace THEN StaleCovariances ELSE {<<>>})
    /\ idx = 0
    /\ pdf = <<>>
    /\ filled = 0
    /\ fig = <<>>
    /\ pdf_list = <<>>
    /\ raised = "none"

\* Lines 68-71: the imports and key = random.PRNGKey(0).
RunImports ==
    /\ cell_line = "start"
    /\ namespace' = namespace \cup {"np", "plt", "random", "key"}
    /\ cell_line' = "line72"
    /\ UNCHANGED <<distr, cov, idx, pdf, filled, fig, pdf_list, raised,
                   callVars, inputVars, loopVars>>

\* Line 72 in a kernel that holds mean and cov: the sample is discarded.
Line72 ==
    /\ cell_line = "line72"
    /\ {"mean", "cov"} \subseteq namespace
    /\ cell_line' = "setup"
    /\ UNCHANGED <<namespace, distr, cov, idx, pdf, filled, fig, pdf_list, raised,
                   callVars, inputVars, loopVars>>

\* Line 72 in a kernel where mean or cov is unbound.
Line72NameError ==
    /\ cell_line = "line72"
    /\ ~({"mean", "cov"} \subseteq namespace)
    /\ CellRaise("NameError")

\* Lines 75-92: the figure, cov_val, mean and the empty pdf_list.
Setup ==
    /\ cell_line = "setup"
    /\ fig' = <<>>
    /\ pdf_list' = <<>>
    /\ namespace' = namespace \cup {"fig", "random_seed", "cov_val", "mean", "pdf_list"}
    /\ idx' = 0
    /\ cell_line' = "for"
    /\ UNCHANGED <<distr, cov, pdf, filled, raised, callVars, inputVars, loopVars>>

\* Lines 95-110: the next value of cov_val, its covariance matrix, the
\* grid and the grid of zeros.
StartIteration ==
    /\ cell_line = "for"
    /\ idx < Len(cov_val)
    /\ cov' = covariance_matrix(cov_val[idx + 1])
    /\ pdf' = zeros(<<GridNum, GridNum>>)
    /\ filled' = 0
    /\ namespace' = namespace \cup {"idx", "val", "cov", "mean_1", "mean_2", "sigma_1",
                                    "sigma_2", "x", "y", "X", "Y", "pdf"}
    /\ cell_line' = "fill"
    /\ UNCHANGED <<distr, idx, fig, pdf_list, raised, callVars, inputVars, loopVars>>

\* Line 113 for the next i, j of lines 111-112, in a kernel that holds distr.
FillPoint ==
    /\ cell_line = "fill"
    /\ filled < GridNum * GridNum
    /\ "distr" \in namespace
    /\ LET i == (filled \div GridNum) + 1
           j == (filled % GridNum) + 1
           XY == grid(cov)
       IN  pdf' = [pdf EXCEPT ![i][j] = distr_pdf(distr, <<XY.X[i][j], XY.Y[i][j]>>)]
    /\ filled' = filled + 1
    /\ namespace' = namespace \cup {"i", "j"}
    /\ UNCHANGED <<cell_line, distr, cov, idx, fig, pdf_list, raised,
                   callVars, inputVars, loopVars>>

\* Line 113 in a kernel where distr is unbound.
FillPointNameError ==
    /\ cell_line = "fill"
    /\ filled < GridNum * GridNum
    /\ "distr" \notin namespace
    /\ CellRaise("NameError")

\* Lines 116-123, once the loops over i and j are exhausted: the subplot
\* at position 131+idx and the grid appended to pdf_list.
PlotSurface ==
    /\ cell_line = "fill"
    /\ filled = GridNum * GridNum
    /\ fig' = Append(fig, [position |-> 131 + idx, surface |-> pdf,
                           title |-> cov_val[idx + 1]])
    /\ pdf_list' = Append(pdf_list, pdf)
    /\ namespace' = namespace \cup {"ax"}
    /\ idx' = idx + 1
    /\ cell_line' = "for"
    /\ UNCHANGED <<distr, cov, pdf, filled, raised, callVars, inputVars, loopVars>>

\* Lines 125-126, once enumerate(cov_val) is exhausted.
Show ==
    /\ cell_line = "for"
    /\ idx = Len(cov_val)
    /\ cell_line' = "done"
    /\ UNCHANGED <<namespace, distr, cov, idx, pdf, filled, fig, pdf_list, raised,
                   callVars, inputVars, loopVars>>

ScriptNext ==
    \/ RunImports
    \/ Line72
    \/ Line72NameError
    \/ Setup
    \/ StartIteration
    \/ FillPoint
    \/ FillPointNameError
    \/ PlotSurface
    \/ Show

ScriptSpec == ScriptInit /\ [][ScriptNext]_vars

\* The density grid of covariance matrix c: at every grid point the density
\* of the normal distribution with mean (0, 0) and covariance c.
DensityGrid(c) ==
    [i \in 1..GridNum |-> [j \in 1..GridNum |->
        distr_pdf([mean |-> <<0, 0>>, cov |-> c], <<grid(c).X[i][j], grid(c).Y[i][j]>>)]]

\* C12: a run of the cell completes, with one figure of exactly three
\* subplots and pdf_list of exactly three grids, one per off-diagonal value
\* -0.8, 0, 0.8 in that order, each filled at every grid point from the
\* covariance matrix of its own iteration.
C12_ThreeGridsOfOwnCovariance ==
    /\ cell_line # "failed"
    /\ cell_line = "done" =>
            /\ Len(fig) = 3
            /\ Len(pdf_list) = 3
            /\ \A n \in 1..3 :
                    /\ pdf_list[n] = DensityGrid(covariance_matrix(cov_val[n]))
                    /\ fig[n].surface = pdf_list[n]

====
